---- MODULE Spec2Model ----
(***************************************************************************)
(* Model of scripts/kaggle_to_s3_ingestion.py: main() and the chunked      *)
(* filter-and-upload loop of process_and_upload_data(), with the Summary   *)
(* accumulator.                                                            *)
(*                                                                         *)
(* Time is counted in hours since 2026-01-18T00:00.  Every blocking call   *)
(* (S3, HTTP, file system) has its outcomes drawn from a small set: "ok",  *)
(* the exception types the code catches by name, any other "Exception",    *)
(* and "KeyboardInterrupt" (an interrupt is delivered while the process is *)
(* blocked in one of these calls).                                         *)
(*                                                                         *)
(* The timestamp column follows the format named at line 248: every value  *)
(* is an ISO-8601 text carrying the file's zone designator, or is empty.   *)
(***************************************************************************)
EXTENDS Integers, Sequences, FiniteSets, TLC

\* ---------------------------------------------------------------- bounds
MaxRows == 3
MaxChunk == 2
MaxOffset == 1

\* ------------------------------------------------------- program constants
\* pd.Timestamp('2026-01-19'), in hours since 2026-01-18T00:00
cutoff_date == 24

VARIABLES
    rows,            \* the data rows of youtube.csv, in file order
    CHUNK_ROWS,      \* Config.CHUNK_ROWS
    pc,              \* position of main()
    success,         \* main's local `success`
    status,          \* Summary.status
    complete_calls,  \* number of executions of Summary.complete (end_time assignments)
    total_rows,      \* Summary.total_rows
    files_uploaded,  \* Summary.files_uploaded
    errors,          \* Summary.errors (the messages' prefixes)
    part_number,     \* process_and_upload_data's part_number
    pos,             \* rows consumed so far by the pd.read_csv iterator
    chunk,           \* the loop variable `chunk`
    temp_files,      \* part_NNNN.csv files present in the working directory
    s3_puts,         \* the sink: objects stored by successful upload_file calls
    attempts,        \* number of upload_file calls made
    saved,           \* content of ingestion_summary.json (<<>> when not written)
    exit_code,       \* process exit code (-1 while running)
    faults           \* number of failed steps so far: calls that raised or were
                     \* interrupted, a rejected configuration

input == <<rows, CHUNK_ROWS>>
summary == <<status, complete_calls, total_rows, files_uploaded, errors>>
loop == <<part_number, pos, chunk>>
world == <<temp_files, s3_puts, attempts, saved, exit_code>>
vars == <<rows, CHUNK_ROWS, pc, success, status, complete_calls, total_rows,
          files_uploaded, errors, part_number, pos, chunk, temp_files,
          s3_puts, attempts, saved, exit_code, faults>>

\* ------------------------------------------------------------ input data
\* Text of the video_published_at column: ISO-8601 with wall-clock hour
\* `wall` and zone offset `off`, or the empty string.
EmptyText == [fmt |-> "empty", wall |-> 0, off |-> 0]

IsoText(w, z) == [fmt |-> "iso", wall |-> w, off |-> z]

Walls == {cutoff_date - 1, cutoff_date, cutoff_date + 1}

\* A row of the file: its timestamp text, and whether the row is
\* structurally invalid (wrong field count) for the CSV parser.
RowValues(z) ==
    {[video_published_at |-> IsoText(w, z), malformed |-> FALSE] : w \in Walls}
    \cup {[video_published_at |-> EmptyText, malformed |-> FALSE],
          [video_published_at |-> EmptyText, malformed |-> TRUE]}

SeqsUpTo(S, n) == UNION {[1..k -> S] : k \in 0..n}

Min(a, b) == IF a < b THEN a ELSE b

\* ------------------------------------------------------- pure functions
NaT == [nat |-> TRUE, wall |-> 0, off |-> 0, aware |-> FALSE]

\* pd.to_datetime(..., errors='coerce'): unparsable text becomes NaT
to_datetime(text) ==
    IF text.fmt = "iso"
    THEN [nat |-> FALSE, wall |-> text.wall, off |-> text.off, aware |-> TRUE]
    ELSE NaT

\* .dt.tz_localize(None): drop the zone, keep the wall-clock fields
tz_localize_none(t) ==
    IF t.nat THEN NaT
    ELSE [nat |-> FALSE, wall |-> t.wall, off |-> 0, aware |-> FALSE]

\* mutant: strict comparison, dropping a row dated exactly at the cutoff
ge_cutoff_strict(t) == (~t.nat) /\ t.wall > cutoff_date

\* `series >= cutoff_date` element-wise: NaT compares False
ge_cutoff(t) == (~t.nat) /\ t.wall >= cutoff_date

\* the boolean mask of line 252 for one row
keep_row(r) == ge_cutoff(tz_localize_none(to_datetime(r.video_published_at)))

\* lines 249-252: the filtered chunk
filter_chunk(c) == SelectSeq(c, keep_row)

\* mutant: a batch of one row more than the chunk size
next_batch_wide(rs, p, n) == SubSeq(rs, p + 1, Min(p + n + 1, Len(rs)))

\* pd.read_csv(chunksize=n): the rows of the next batch after `p` rows
next_batch(rs, p, n) == SubSeq(rs, p + 1, Min(p + n, Len(rs)))

\* mutant: structurally invalid rows are passed over by the parser
batch_malformed_ignored(b) == FALSE

\* the parser raises on a structurally invalid row of the batch it tokenizes
batch_malformed(b) == \E i \in 1..Len(b) : b[i].malformed

\* f"part_{part_number:04d}.csv": the four zero-padded decimal digits
temp_file_name(n) ==
    <<(n \div 1000) % 10, (n \div 100) % 10, (n \div 10) % 10, n % 10>>

\* mutant: counts the configured chunk size instead of the filtered length
next_total_chunk_rows(total, c) == total + CHUNK_ROWS

\* lines 258-259: chunk_size = len(chunk); summary.total_rows += chunk_size
next_total(total, c) == total + Len(c)

\* Summary.to_dict: the fields of the persisted document
to_dict(st, total, files, errs) ==
    [status |-> st,
     total_rows_processed |-> total,
     files_uploaded |-> Len(files),
     file_list |-> files,
     errors |-> errs]

\* ------------------------------------------------------- Summary methods
\* Summary.complete
complete(ok) ==
    /\ status' = IF ok THEN "success" ELSE "failed"
    /\ complete_calls' = complete_calls + 1

\* mutant: the errors list keeps the last message only
add_error_overwrite(msg) == errors' = <<msg>>

\* Summary.add_error
add_error(msg) == errors' = Append(errors, msg)

\* Summary.save
save == saved' = <<to_dict(status, total_rows, files_uploaded, errors)>>

\* main's `except KeyboardInterrupt` / `except Exception` clauses up to
\* their cleanup_files call
handler(outcome) ==
    /\ add_error(IF outcome = "KeyboardInterrupt"
                 THEN "Pipeline interrupted by user" ELSE "Unexpected error")
    /\ complete(FALSE)
    /\ pc' = "h_cleanup"
    /\ UNCHANGED <<success, files_uploaded>>

\* mutant: the except clause records the error and returns True
processing_failed_swallow ==
    /\ add_error("Processing failed")
    /\ pc' = "cleanup"
    /\ UNCHANGED <<status, complete_calls, files_uploaded, success>>

\* process_and_upload_data's `except Exception` clause, then main line 340
processing_failed ==
    /\ add_error("Processing failed")
    /\ success' = FALSE
    /\ pc' = "cleanup"
    /\ UNCHANGED <<status, complete_calls, files_uploaded>>

\* a call that ends in an exception or an interrupt is a failed step
count_fault(outcome) == faults' = IF outcome = "ok" THEN faults ELSE faults + 1

\* the parser meets a structurally invalid row in the batch it is asked for
read_fails ==
    /\ pos < Len(rows)
    /\ batch_malformed(next_batch(rows, pos, CHUNK_ROWS))

\* ------------------------------------------------------------------ Init
Init ==
    /\ \E z \in 0..MaxOffset : rows \in SeqsUpTo(RowValues(z), MaxRows)
    /\ CHUNK_ROWS \in 1..MaxChunk
    /\ pc = "validate"
    /\ success = TRUE
    /\ status = "running"
    /\ complete_calls = 0
    /\ total_rows = 0
    /\ files_uploaded = <<>>
    /\ errors = <<>>
    /\ part_number = 1
    /\ pos = 0
    /\ chunk = <<>>
    /\ temp_files = {}
    /\ s3_puts = <<>>
    /\ attempts = 0
    /\ saved = <<>>
    /\ exit_code = -1
    /\ faults = 0

\* --------------------------------------------------------------- actions
\* main lines 315-318: Config.validate
Validate ==
    /\ pc = "validate"
    /\ \E valid \in BOOLEAN :
        /\ faults' = IF valid THEN faults ELSE faults + 1
        /\ IF valid
           THEN /\ pc' = "verify"
                /\ UNCHANGED <<status, complete_calls>>
           ELSE /\ complete(FALSE)
                /\ pc' = "save_early"
    /\ UNCHANGED <<input, loop, world, success, total_rows, files_uploaded, errors>>

\* main lines 323-330: initialize_s3_client, verify_s3_access
Verify ==
    /\ pc = "verify"
    /\ \E outcome \in {"ok", "ClientError", "Exception", "KeyboardInterrupt"} :
        /\ count_fault(outcome)
        /\ CASE outcome = "ok" ->
                  /\ pc' = "download"
                  /\ UNCHANGED <<status, complete_calls, files_uploaded, errors, success>>
             [] outcome = "ClientError" ->
                  /\ add_error("S3 bucket not accessible")
                  /\ complete(FALSE)
                  /\ pc' = "save_early"
                  /\ UNCHANGED <<success, files_uploaded>>
             [] OTHER -> handler(outcome)
    /\ UNCHANGED <<input, loop, world, total_rows>>

\* main lines 317-318 and 329-330: summary.save, sys.exit(1)
SaveEarly ==
    /\ pc = "save_early"
    /\ \E outcome \in {"ok", "Exception", "KeyboardInterrupt"} :
        /\ count_fault(outcome)
        /\ IF outcome = "ok"
           THEN /\ save
                /\ exit_code' = 1
                /\ pc' = "exited"
                /\ UNCHANGED <<status, complete_calls, files_uploaded, errors, success>>
           ELSE /\ handler(outcome)
                /\ UNCHANGED <<saved, exit_code>>
    /\ UNCHANGED <<input, loop, temp_files, s3_puts, attempts, total_rows>>

\* main lines 335-336: download_kaggle_dataset
Download ==
    /\ pc = "download"
    /\ \E outcome \in {"ok", "RequestException", "Exception", "KeyboardInterrupt"} :
        /\ count_fault(outcome)
        /\ CASE outcome = "ok" ->
                  /\ pc' = "extract"
                  /\ UNCHANGED <<status, complete_calls, files_uploaded, errors, success>>
             [] outcome = "RequestException" ->
                  /\ add_error("Download failed")
                  /\ success' = FALSE
                  /\ pc' = "cleanup"
                  /\ UNCHANGED <<status, complete_calls, files_uploaded>>
             [] OTHER -> handler(outcome)
    /\ UNCHANGED <<input, loop, world, total_rows>>

\* main lines 337-338: extract_csv_from_zip; line 238 on entry to the next stage
Extract ==
    /\ pc = "extract"
    /\ \E outcome \in {"ok", "Exception", "KeyboardInterrupt"} :
        /\ count_fault(outcome)
        /\ CASE outcome = "ok" ->
                  /\ pc' = "read"
                  /\ UNCHANGED <<status, complete_calls, files_uploaded, errors, success>>
             [] outcome = "Exception" ->
                  /\ add_error("Extraction failed")
                  /\ success' = FALSE
                  /\ pc' = "cleanup"
                  /\ UNCHANGED <<status, complete_calls, files_uploaded>>
             [] OTHER -> handler(outcome)
    /\ part_number' = 1
    /\ UNCHANGED <<input, pos, chunk, world, total_rows>>

\* lines 241-246: the iterator of pd.read_csv yields the next chunk, or ends
\* (lines 283-285: return True)
ReadChunk ==
    /\ pc = "read"
    /\ \E outcome \in {"ok", "Exception", "KeyboardInterrupt"} :
        /\ faults' = IF outcome = "ok" /\ ~read_fails THEN faults ELSE faults + 1
        /\ CASE outcome = "ok" /\ pos = Len(rows) ->
                  /\ pc' = "cleanup"
                  /\ UNCHANGED <<summary, success, pos, chunk>>
             [] outcome = "ok" /\ pos < Len(rows)
                   /\ ~batch_malformed(next_batch(rows, pos, CHUNK_ROWS)) ->
                  /\ chunk' = next_batch(rows, pos, CHUNK_ROWS)
                  /\ pos' = pos + Len(next_batch(rows, pos, CHUNK_ROWS))
                  /\ pc' = "filter"
                  /\ UNCHANGED <<summary, success>>
             [] outcome = "KeyboardInterrupt" ->
                  /\ handler(outcome)
                  /\ UNCHANGED <<total_rows, pos, chunk>>
             [] OTHER ->
                  /\ processing_failed
                  /\ UNCHANGED <<total_rows, pos, chunk>>
    /\ UNCHANGED <<input, part_number, world>>

\* mutant: the partition counter numbers batches, advancing on a skipped chunk
Filter_counting ==
    /\ pc = "filter"
    /\ chunk' = filter_chunk(chunk)
    /\ pc' = IF Len(filter_chunk(chunk)) = 0 THEN "read" ELSE "write"
    /\ part_number' = IF Len(filter_chunk(chunk)) = 0
                      THEN part_number + 1 ELSE part_number
    /\ UNCHANGED <<input, summary, success, pos, world, faults>>

\* mutant: no skip of a chunk that filtered to empty
Filter_noskip ==
    /\ pc = "filter"
    /\ chunk' = filter_chunk(chunk)
    /\ pc' = "write"
    /\ UNCHANGED <<input, summary, success, part_number, pos, world, faults>>

\* lines 249-256: parse, filter, skip the chunk when nothing is left
Filter ==
    /\ pc = "filter"
    /\ chunk' = filter_chunk(chunk)
    /\ pc' = IF Len(filter_chunk(chunk)) = 0 THEN "read" ELSE "write"
    /\ UNCHANGED <<input, summary, success, part_number, pos, world, faults>>

\* lines 258-264: count the rows, write the temporary file
WriteTemp ==
    /\ pc = "write"
    /\ total_rows' = next_total(total_rows, chunk)
    /\ \E outcome \in {"ok", "Exception", "KeyboardInterrupt"} :
        /\ count_fault(outcome)
        /\ CASE outcome = "ok" ->
                  /\ temp_files' = temp_files \cup {temp_file_name(part_number)}
                  /\ pc' = "upload"
                  /\ UNCHANGED <<status, complete_calls, files_uploaded, errors, success>>
             [] outcome = "Exception" ->
                  /\ \E created \in BOOLEAN :
                       temp_files' = IF created
                                     THEN temp_files \cup {temp_file_name(part_number)}
                                     ELSE temp_files
                  /\ processing_failed
             [] OTHER ->
                  /\ \E created \in BOOLEAN :
                       temp_files' = IF created
                                     THEN temp_files \cup {temp_file_name(part_number)}
                                     ELSE temp_files
                  /\ handler(outcome)
    /\ UNCHANGED <<input, loop, s3_puts, attempts, saved, exit_code>>

\* mutant: the key is recorded before the outcome of upload_file is known
Upload_recordfirst ==
    /\ pc = "upload"
    /\ attempts' = attempts + 1
    /\ files_uploaded' = Append(files_uploaded, temp_file_name(part_number))
    /\ \E outcome \in {"ok", "ClientError", "Exception", "KeyboardInterrupt"} :
        /\ count_fault(outcome)
        /\ CASE outcome = "ok" ->
                  /\ s3_puts' = Append(s3_puts, [key |-> temp_file_name(part_number),
                                                 nrows |-> Len(chunk)])
                  /\ pc' = "remove"
                  /\ UNCHANGED <<status, complete_calls, errors, success>>
             [] outcome = "ClientError" ->
                  /\ add_error("Upload failed")
                  /\ pc' = "remove_failed"
                  /\ UNCHANGED <<status, complete_calls, success, s3_puts>>
             [] outcome = "Exception" ->
                  /\ add_error("Processing failed")
                  /\ success' = FALSE
                  /\ pc' = "cleanup"
                  /\ UNCHANGED <<status, complete_calls, s3_puts>>
             [] OTHER ->
                  /\ add_error("Pipeline interrupted by user")
                  /\ complete(FALSE)
                  /\ pc' = "h_cleanup"
                  /\ UNCHANGED <<success, s3_puts>>
    /\ UNCHANGED <<input, loop, total_rows, temp_files, saved, exit_code>>

\* lines 267-276: s3_client.upload_file and the recording of its result
Upload ==
    /\ pc = "upload"
    /\ attempts' = attempts + 1
    /\ \E outcome \in {"ok", "ClientError", "Exception", "KeyboardInterrupt"} :
        /\ count_fault(outcome)
        /\ CASE outcome = "ok" ->
                  /\ s3_puts' = Append(s3_puts, [key |-> temp_file_name(part_number),
                                                 nrows |-> Len(chunk)])
                  /\ files_uploaded' = Append(files_uploaded, temp_file_name(part_number))
                  /\ pc' = "remove"
                  /\ UNCHANGED <<status, complete_calls, errors, success>>
             [] outcome = "ClientError" ->
                  /\ add_error("Upload failed")
                  /\ pc' = "remove_failed"
                  /\ UNCHANGED <<status, complete_calls, files_uploaded, success, s3_puts>>
             [] outcome = "Exception" ->
                  /\ processing_failed
                  /\ UNCHANGED s3_puts
             [] OTHER ->
                  /\ handler(outcome)
                  /\ UNCHANGED s3_puts
    /\ UNCHANGED <<input, loop, total_rows, temp_files, saved, exit_code>>

\* mutant: the partition counter is not advanced after a delivery
RemoveTemp_noinc ==
    /\ pc = "remove"
    /\ \E outcome \in {"ok", "Exception", "KeyboardInterrupt"} :
        /\ count_fault(outcome)
        /\ CASE outcome = "ok" ->
                  /\ temp_files' = temp_files \ {temp_file_name(part_number)}
                  /\ part_number' = part_number
                  /\ pc' = "read"
                  /\ UNCHANGED <<summary, success>>
             [] outcome = "Exception" ->
                  /\ processing_failed
                  /\ UNCHANGED <<total_rows, temp_files, part_number>>
             [] OTHER ->
                  /\ handler(outcome)
                  /\ UNCHANGED <<total_rows, temp_files, part_number>>
    /\ UNCHANGED <<input, pos, chunk, s3_puts, attempts, saved, exit_code>>

\* mutant: the temporary file is not removed after a delivery
RemoveTemp_keepfile ==
    /\ pc = "remove"
    /\ \E outcome \in {"ok", "Exception", "KeyboardInterrupt"} :
        /\ count_fault(outcome)
        /\ CASE outcome = "ok" ->
                  /\ temp_files' = temp_files
                  /\ part_number' = part_number + 1
                  /\ pc' = "read"
                  /\ UNCHANGED <<summary, success>>
             [] outcome = "Exception" ->
                  /\ processing_failed
                  /\ UNCHANGED <<total_rows, temp_files, part_number>>
             [] OTHER ->
                  /\ handler(outcome)
                  /\ UNCHANGED <<total_rows, temp_files, part_number>>
    /\ UNCHANGED <<input, pos, chunk, s3_puts, attempts, saved, exit_code>>

\* lines 280-281: os.remove(temp_file); part_number += 1
RemoveTemp ==
    /\ pc = "remove"
    /\ \E outcome \in {"ok", "Exception", "KeyboardInterrupt"} :
        /\ count_fault(outcome)
        /\ CASE outcome = "ok" ->
                  /\ temp_files' = temp_files \ {temp_file_name(part_number)}
                  /\ part_number' = part_number + 1
                  /\ pc' = "read"
                  /\ UNCHANGED <<summary, success>>
             [] outcome = "Exception" ->
                  /\ processing_failed
                  /\ UNCHANGED <<total_rows, temp_files, part_number>>
             [] OTHER ->
                  /\ handler(outcome)
                  /\ UNCHANGED <<total_rows, temp_files, part_number>>
    /\ UNCHANGED <<input, pos, chunk, s3_puts, attempts, saved, exit_code>>

\* mutant: skip-and-continue, the loop goes on after a failed delivery
RemoveFailed_continue ==
    /\ pc = "remove_failed"
    /\ \E outcome \in {"ok", "Exception", "KeyboardInterrupt"} :
        /\ count_fault(outcome)
        /\ CASE outcome = "ok" ->
                  /\ temp_files' = temp_files \ {temp_file_name(part_number)}
                  /\ pc' = "read"
                  /\ UNCHANGED <<summary, success>>
             [] outcome = "Exception" ->
                  /\ processing_failed
                  /\ UNCHANGED <<total_rows, temp_files>>
             [] OTHER ->
                  /\ handler(outcome)
                  /\ UNCHANGED <<total_rows, temp_files>>
    /\ UNCHANGED <<input, loop, s3_puts, attempts, saved, exit_code>>

\* mutant: the failure is raised again after the cleanup and recorded a
\* second time by the enclosing except clause
RemoveFailed_rerecord ==
    /\ pc = "remove_failed"
    /\ \E outcome \in {"ok", "Exception", "KeyboardInterrupt"} :
        /\ count_fault(outcome)
        /\ CASE outcome = "ok" ->
                  /\ temp_files' = temp_files \ {temp_file_name(part_number)}
                  /\ processing_failed
                  /\ UNCHANGED total_rows
             [] outcome = "Exception" ->
                  /\ processing_failed
                  /\ UNCHANGED <<total_rows, temp_files>>
             [] OTHER ->
                  /\ handler(outcome)
                  /\ UNCHANGED <<total_rows, temp_files>>
    /\ UNCHANGED <<input, loop, s3_puts, attempts, saved, exit_code>>

\* lines 277-278: os.remove(temp_file); return False
RemoveFailed ==
    /\ pc = "remove_failed"
    /\ \E outcome \in {"ok", "Exception", "KeyboardInterrupt"} :
        /\ count_fault(outcome)
        /\ CASE outcome = "ok" ->
                  /\ temp_files' = temp_files \ {temp_file_name(part_number)}
                  /\ success' = FALSE
                  /\ pc' = "cleanup"
                  /\ UNCHANGED summary
             [] outcome = "Exception" ->
                  /\ processing_failed
                  /\ UNCHANGED <<total_rows, temp_files>>
             [] OTHER ->
                  /\ handler(outcome)
                  /\ UNCHANGED <<total_rows, temp_files>>
    /\ UNCHANGED <<input, loop, s3_puts, attempts, saved, exit_code>>

\* main lines 343-346: cleanup_files, then summary.complete(success)
Cleanup ==
    /\ pc = "cleanup"
    /\ \E outcome \in {"ok", "Exception", "KeyboardInterrupt"} :
        /\ count_fault(outcome)
        /\ IF outcome = "ok"
           THEN /\ complete(success)
                /\ pc' = "save"
                /\ UNCHANGED <<files_uploaded, errors, success>>
           ELSE handler(outcome)
    /\ UNCHANGED <<input, loop, world, total_rows>>

\* mutant: the failure branch falls off the end of main, exit code 0
Save_exit0 ==
    /\ pc = "save"
    /\ \E outcome \in {"ok", "Exception", "KeyboardInterrupt"} :
        /\ count_fault(outcome)
        /\ IF outcome = "ok"
           THEN /\ save
                /\ exit_code' = 0
                /\ pc' = "exited"
                /\ UNCHANGED <<summary, success>>
           ELSE /\ handler(outcome)
                /\ UNCHANGED <<saved, exit_code, total_rows>>
    /\ UNCHANGED <<input, loop, temp_files, s3_puts, attempts>>

\* main lines 347-367: summary.save, then sys.exit(0) or sys.exit(1)
Save ==
    /\ pc = "save"
    /\ \E outcome \in {"ok", "Exception", "KeyboardInterrupt"} :
        /\ count_fault(outcome)
        /\ IF outcome = "ok"
           THEN /\ save
                /\ exit_code' = IF success THEN 0 ELSE 1
                /\ pc' = "exited"
                /\ UNCHANGED <<summary, success>>
           ELSE /\ handler(outcome)
                /\ UNCHANGED <<saved, exit_code, total_rows>>
    /\ UNCHANGED <<input, loop, temp_files, s3_puts, attempts>>

\* main lines 373 and 381: cleanup_files inside an except clause; an
\* exception raised here leaves main and ends the process
HandlerCleanup ==
    /\ pc = "h_cleanup"
    /\ \E outcome \in {"ok", "Exception", "KeyboardInterrupt"} :
        /\ count_fault(outcome)
        /\ IF outcome = "ok"
           THEN /\ pc' = "h_save"
                /\ UNCHANGED exit_code
           ELSE /\ pc' = "exited"
                /\ exit_code' = 1
    /\ UNCHANGED <<input, summary, success, loop, temp_files, s3_puts, attempts, saved>>

\* main lines 374-375 and 382-383: summary.save, sys.exit(1) inside an
\* except clause
HandlerSave ==
    /\ pc = "h_save"
    /\ \E outcome \in {"ok", "Exception", "KeyboardInterrupt"} :
        /\ count_fault(outcome)
        /\ IF outcome = "ok"
           THEN save
           ELSE UNCHANGED saved
    /\ exit_code' = 1
    /\ pc' = "exited"
    /\ UNCHANGED <<input, summary, success, loop, temp_files, s3_puts, attempts>>

Next ==
    \/ Validate
    \/ Verify
    \/ SaveEarly
    \/ Download
    \/ Extract
    \/ ReadChunk
    \/ Filter
    \/ WriteTemp
    \/ Upload
    \/ RemoveTemp
    \/ RemoveFailed
    \/ Cleanup
    \/ Save
    \/ HandlerCleanup
    \/ HandlerSave

Spec == Init /\ [][Next]_vars

\* ------------------------------------------------- vocabulary of the claims
\* a row whose timestamp text is a timestamp not earlier than the cutoff,
\* read on its wall-clock fields
Accepted(r) ==
    /\ r.video_published_at.fmt = "iso"
    /\ r.video_published_at.wall >= cutoff_date

CountAccepted(rs) == Cardinality({i \in 1..Len(rs) : Accepted(rs[i])})

\* the sequence number written in a key
SeqNo(key) == key[1] * 1000 + key[2] * 100 + key[3] * 10 + key[4]

RECURSIVE SumRows(_)
SumRows(puts) ==
    IF puts = <<>> THEN 0 ELSE puts[1].nrows + SumRows(Tail(puts))

\* the objects of the sink whose keys the summary lists as delivered
DeliveredPuts ==
    SelectSeq(s3_puts,
              LAMBDA p : \E i \in 1..Len(files_uploaded) : files_uploaded[i] = p.key)

DeliveryFailed == attempts > Len(s3_puts)

\* ------------------------------------------------------------------ claims
\* C1: fail-fast.  Once an upload has failed, no further batch is read from
\* the source, no further upload is attempted, and the run ends with status
\* "failed".
C1_FailFast ==
    [][DeliveryFailed =>
         /\ pos' = pos
         /\ attempts' = attempts
         /\ (pc' = "exited" => status' = "failed")]_vars

\* Scenario B: the first partition delivered, the second failed, the third
\* batch never read.
C1_Witness ==
    /\ pc = "exited"
    /\ DeliveryFailed
    /\ Len(files_uploaded) = 1
    /\ attempts = 2
    /\ pos < Len(rows)

\* C2: the sequence numbers of the delivered partitions are 1, 2, ..., k in
\* delivery order, whatever number of batches filtered to empty in between.
C2_ContiguousNumbers ==
    \A i \in 1..Len(files_uploaded) : SeqNo(files_uploaded[i]) = i

\* two partitions delivered with a batch that filtered to empty in between
C2_Witness ==
    /\ Len(files_uploaded) = 2
    /\ CHUNK_ROWS = 1
    /\ Len(rows) = 3
    /\ ~Accepted(rows[2])

\* C3: whenever no upload is pending, total_rows equals the sum of the row
\* counts of the partitions recorded as delivered (also after an abort).
C3_TotalIsDeliveredRows ==
    pc # "upload" => total_rows = SumRows(DeliveredPuts)

\* C4: the length of the delivered list, and the files_uploaded count of
\* the persisted document, equal the number of successful uploads.
C4_DeliveredCount ==
    /\ Len(files_uploaded) = Len(s3_puts)
    /\ saved # <<>> => saved[1].files_uploaded = Len(s3_puts)

\* the document of a run aborted by the failure of its second upload
C4_Witness ==
    /\ saved # <<>>
    /\ saved[1].status = "failed"
    /\ saved[1].files_uploaded = 1
    /\ attempts = 2

\* C5: Summary.complete is executed exactly once per run, on every exit path.
C5_CompleteOnce ==
    /\ complete_calls <= 1
    /\ pc = "exited" => complete_calls = 1

\* C6: every run that ends has persisted the summary document, with status
\* "success" or "failed".
C6_SummaryPersisted ==
    pc = "exited" =>
        /\ saved # <<>>
        /\ saved[1].status \in {"success", "failed"}

\* C7: a run that ends with status "failed" has at least one error entry.
C7_FailedHasError ==
    (pc = "exited" /\ status = "failed") => Len(errors) >= 1

\* C8: a batch that filters to empty changes neither the partition counter,
\* the delivered list, the total, the errors, the temporary files nor the
\* number of uploads, and the loop goes on to read the next batch.
C8_EmptyBatchFrame ==
    [][(pc = "filter" /\ \A i \in 1..Len(chunk) : ~Accepted(chunk[i])) =>
         /\ part_number' = part_number
         /\ files_uploaded' = files_uploaded
         /\ total_rows' = total_rows
         /\ errors' = errors
         /\ temp_files' = temp_files
         /\ attempts' = attempts
         /\ s3_puts' = s3_puts
         /\ pc' = "read"]_vars

\* back at the read after a batch filtered to empty, one partition delivered
\* before it
C8_Witness ==
    /\ pc = "read"
    /\ chunk = <<>>
    /\ pos > 0
    /\ Len(files_uploaded) = 1
    /\ part_number = 2

\* C9: when process_and_upload_data returned True, total_rows and the sum
\* of the sizes of the delivered partitions equal the number of accepted
\* rows of the input.
C9_AcceptedRowsConserved ==
    ((pc = "cleanup" /\ success) \/ status = "success") =>
        /\ total_rows = CountAccepted(rows)
        /\ SumRows(s3_puts) = CountAccepted(rows)

\* a successful run of two partitions over three rows, one of them rejected
C9_Witness ==
    /\ status = "success"
    /\ CHUNK_ROWS = 2
    /\ Len(rows) = 3
    /\ Len(s3_puts) = 2
    /\ CountAccepted(rows) = 2

\* C10: the filter keeps exactly the rows whose timestamp parses and is not
\* earlier than the cutoff, in order; it adds no error entry and does not
\* end the run.
C10_RowFilter ==
    [][pc = "filter" =>
         /\ chunk' = SelectSeq(chunk, Accepted)
         /\ errors' = errors
         /\ status' = status
         /\ success' = success
         /\ pc' \in {"read", "write"}]_vars

\* a batch of a row dated exactly at the cutoff (zone offset 1) and a row
\* with an empty timestamp, filtered to the first alone, without an error
C10_Witness ==
    /\ pc = "write"
    /\ CHUNK_ROWS = 2
    /\ pos = 2
    /\ rows[2].video_published_at = EmptyText
    /\ chunk = <<[video_published_at |-> IsoText(cutoff_date, 1), malformed |-> FALSE]>>
    /\ errors = <<>>

\* C11: no partition temporary file remains once process_and_upload_data
\* has been left (returned, or left by an exception or an interrupt), and
\* none remains at process exit.
C11_TempFileReleased ==
    pc \in {"cleanup", "save", "h_cleanup", "h_save", "exited"} => temp_files = {}

IsPrefix(a, b) == Len(a) <= Len(b) /\ SubSeq(b, 1, Len(a)) = a

\* C12: the summary is accumulate-only.  In every step the delivered list
\* and the errors list are extended at the end or left alone, and the total
\* row count does not decrease.
C12_AccumulateOnly ==
    [][/\ IsPrefix(files_uploaded, files_uploaded')
       /\ IsPrefix(errors, errors')
       /\ total_rows' >= total_rows]_vars

\* a second upload failed after a first was delivered and recorded, and a
\* further error was recorded after that of the failed upload
C12_Witness ==
    /\ DeliveryFailed
    /\ files_uploaded = <<temp_file_name(1)>>
    /\ Len(errors) = 2
    /\ errors[1] = "Upload failed"

\* C13: a run aborted by a failed upload, with no other failed step, ends
\* with exactly one error entry, in the summary and in the persisted
\* document.
C13_OneErrorEntry ==
    (pc = "exited" /\ DeliveryFailed /\ faults = 1) =>
        /\ Len(errors) = 1
        /\ saved # <<>>
        /\ Len(saved[1].errors) = 1

\* the end of a run whose only failed step was an upload rejected by the sink
C13_Witness ==
    /\ pc = "exited"
    /\ faults = 1
    /\ errors = <<"Upload failed">>
    /\ saved # <<>>
    /\ attempts = Len(s3_puts) + 1

\* the next batch of the reader holds a structurally invalid row
MalformedNext ==
    /\ pos < Len(rows)
    /\ \E i \in (pos + 1)..Min(pos + CHUNK_ROWS, Len(rows)) : rows[i].malformed

\* C14: a structurally invalid row is fatal.  The batch that holds it is
\* never yielded and no later batch is read; the failed read appends an
\* error entry, attempts no upload and leaves the delivered list alone;
\* nothing is uploaded or delivered after it, and the run ends with status
\* "failed".
C14_MalformedIsFatal ==
    [][MalformedNext =>
         /\ pos' = pos
         /\ pc = "read" =>
              /\ Len(errors') = Len(errors) + 1
              /\ pc' \in {"cleanup", "h_cleanup"}
         /\ pc \in {"read", "cleanup", "save", "h_cleanup", "h_save"} =>
              /\ attempts' = attempts
              /\ s3_puts' = s3_puts
              /\ files_uploaded' = files_uploaded
         /\ pc' = "exited" => status' = "failed"]_vars

\* the end of a run whose second batch held the invalid row: the first
\* partition stays recorded, the failure is the only error
C14_Witness ==
    /\ pc = "exited"
    /\ MalformedNext
    /\ pos > 0
    /\ attempts = 1
    /\ files_uploaded = <<temp_file_name(1)>>
    /\ errors = <<"Processing failed">>
    /\ saved # <<>>
    /\ saved[1].files_uploaded = 1

\* every row is well formed and dated before the cutoff
AllBefore ==
    \A i \in 1..Len(rows) :
        /\ ~rows[i].malformed
        /\ rows[i].video_published_at.fmt = "iso"
        /\ rows[i].video_published_at.wall < cutoff_date

\* C15: when every row is dated before the cutoff, no upload is attempted,
\* nothing is delivered or counted, no partition file is written; a run
\* with no failed step ends with no error entry, status "success", exit
\* code 0, and a document saying so.
C15_AllFilteredOut ==
    AllBefore =>
        /\ attempts = 0
        /\ files_uploaded = <<>>
        /\ total_rows = 0
        /\ temp_files = {}
        /\ (pc = "exited" /\ faults = 0) =>
              /\ errors = <<>>
              /\ status = "success"
              /\ exit_code = 0
              /\ saved # <<>>
              /\ saved[1].status = "success"
              /\ saved[1].files_uploaded = 0
              /\ saved[1].total_rows_processed = 0

\* Scenario C over three rows in two batches
C15_Witness ==
    /\ pc = "exited"
    /\ faults = 0
    /\ AllBefore
    /\ Len(rows) = 3
    /\ CHUNK_ROWS = 2
    /\ status = "success"

AllAccepted == \A i \in 1..Len(rows) : Accepted(rows[i])

Ceil(m, n) == (m + n - 1) \div n

\* C16: when every one of the M rows is accepted and no step fails, the run
\* delivers ceil(M/N) partitions numbered 1..ceil(M/N), of N rows each but
\* the last, which holds the remaining M - N*(ceil(M/N)-1) rows; the total
\* is M and the status "success".
C16_PartitionSizes ==
    (pc = "exited" /\ faults = 0 /\ AllAccepted) =>
        LET M == Len(rows)
            N == CHUNK_ROWS
            k == Ceil(M, N)
        IN /\ Len(s3_puts) = k
           /\ Len(files_uploaded) = k
           /\ \A i \in 1..k :
                /\ SeqNo(s3_puts[i].key) = i
                /\ files_uploaded[i] = s3_puts[i].key
                /\ s3_puts[i].nrows = IF i < k THEN N ELSE M - N * (k - 1)
           /\ total_rows = M
           /\ status = "success"

\* Scenario A in small: three accepted rows, chunk size two, partitions of
\* two rows and one row
C16_Witness ==
    /\ pc = "exited"
    /\ faults = 0
    /\ AllAccepted
    /\ Len(rows) = 3
    /\ CHUNK_ROWS = 2
    /\ Len(s3_puts) = 2
    /\ s3_puts[2].nrows = 1

\* C17: at process exit the exit code is 0 exactly when the summary's status
\* is "success" (and then the persisted document says "success"), and it is
\* non-zero whenever a step of the run failed.
C17_ExitCodeAgrees ==
    pc = "exited" =>
        /\ exit_code \in {0, 1}
        /\ exit_code = 0 <=> status = "success"
        /\ exit_code = 0 => (saved # <<>> /\ saved[1].status = "success")
        /\ faults > 0 => exit_code # 0

\* the end of a run whose upload was rejected by the sink: persisted as
\* failed, exit code 1
C17_Witness ==
    /\ pc = "exited"
    /\ exit_code = 1
    /\ saved # <<>>
    /\ saved[1].status = "failed"
    /\ saved[1].errors = <<"Upload failed">>
    /\ complete_calls = 1

\* C18: one batch at a time.  A batch is pulled only at the read, when no
\* partition file exists, no upload has failed, every partition numbered so
\* far is recorded as delivered, every counted row is in the sink, and the
\* previous batch was skipped as empty or is the last object delivered; at
\* most one partition file exists and a step makes at most one upload.
C18_OneBatchAtATime ==
    [][/\ pos' # pos =>
            /\ pc = "read"
            /\ temp_files = {}
            /\ attempts = Len(s3_puts)
            /\ Len(files_uploaded) = part_number - 1
            /\ total_rows = SumRows(s3_puts)
            /\ \/ chunk = <<>>
               \/ /\ s3_puts # <<>>
                  /\ s3_puts[Len(s3_puts)].nrows = Len(chunk)
       /\ Cardinality(temp_files') <= 1
       /\ attempts' <= attempts + 1]_vars

\* the second batch pulled after the first was delivered and its file removed
C18_Witness ==
    /\ pc = "filter"
    /\ CHUNK_ROWS = 1
    /\ pos = 2
    /\ Len(s3_puts) = 1
    /\ temp_files = {}

\* the number of batches of the input with at least one accepted row
NonEmptyBatches ==
    Cardinality({k \in 1..Ceil(Len(rows), CHUNK_ROWS) :
        \E i \in ((k - 1) * CHUNK_ROWS + 1)..Min(k * CHUNK_ROWS, Len(rows)) :
            Accepted(rows[i])})

\* C19: a summary with status "success" has no error entry and lists as
\* delivered one partition for every batch of the input with at least one
\* accepted row, each of them in the sink.
C19_SuccessIsClean ==
    status = "success" =>
        /\ errors = <<>>
        /\ Len(files_uploaded) = NonEmptyBatches
        /\ Len(s3_puts) = NonEmptyBatches

\* a successful run over three batches of one row, the first filtered out
C19_Witness ==
    /\ status = "success"
    /\ CHUNK_ROWS = 1
    /\ Len(rows) = 3
    /\ ~Accepted(rows[1])
    /\ Len(files_uploaded) = 2

====
